---- MODULE Spec2Model ----
(***************************************************************************)
(* `#[spirv(...)]` attribute checking of rustc_codegen_spirv (attr.rs):    *)
(* the aggregated attribute set and its insertion rule, the per-position   *)
(* check (check_spirv_attributes), the consumption-time re-parse           *)
(* (AggregatedSpirvAttributes::parse), the module walker (check_mod_attrs) *)
(* and the query hook installed by provide.                                *)
(***************************************************************************)
EXTENDS Naturals, Sequences, FiniteSets, TLC

VARIABLES
    self,       \* SpecInsert: the AggregatedSpirvAttributes being inserted into
    calls,      \* SpecInsert: the try_insert_attr calls made so far, with results
    hir,        \* the HIR the pass reads: attrs, parent and target of each node
    pc,         \* position of the running pass
    checked,    \* Spec: what check_spirv_attributes did at the position
    consumed,   \* Spec: what AggregatedSpirvAttributes::parse did at the position
    pending,    \* SpecCrate: modules whose check_mod_attrs query has not run yet
    cur,        \* SpecCrate: module and step of the running hook invocation
    session     \* SpecCrate: what ran so far, in order, with what it reported

vars == <<self, calls, hir, pc, checked, consumed, pending, cur, session>>

(***************************************************************************)
(* Bounds of the model.                                                    *)
(***************************************************************************)
MaxAttrs == 3        \* annotations at one position
MaxParentAttrs == 2  \* annotations on a parameter and on its parent, all combined
MaxCalls == 3        \* try_insert_attr calls on one set
NumModules == 2      \* modules of the crate
MaxWideAttrs == 1    \* annotations at one position of the crate, from the whole pool

\* Payloads a valued decoration is given in the model.
PayloadValues == {1, 2}

(***************************************************************************)
(* The decoration vocabulary.                                              *)
(***************************************************************************)
UnitKinds == {"Block", "Flat", "UnrollLoops"}

ValuedKinds ==
    {"IntrinsicType", "Entry", "StorageClass", "Builtin", "DescriptorSet", "Binding"}

Kinds == UnitKinds \cup ValuedKinds

\* enum SpirvAttribute: a unit variant carries the payload <<>>.
SpirvAttribute ==
    [kind : UnitKinds, value : {<<>>}]
        \cup [kind : ValuedKinds, value : {<<v>> : v \in PayloadValues}]

\* Option<Spanned<T>>: <<>> is None, <<[value, span]>> is Some.
None == <<>>

Spanned(value, span) == [value |-> value, span |-> span]

Some(x) == <<x>>

IsSome(slot) == slot # None

\* #[derive(Default)] AggregatedSpirvAttributes: one empty slot per category.
Slots ==
    {"intrinsic_type", "block", "entry", "storage_class", "builtin",
     "descriptor_set", "binding", "flat", "unroll_loops"}

DefaultAggregated == [s \in Slots |-> None]

\* The slot and the category label try_insert_attr gives each variant.
SlotOf(kind) ==
    CASE kind = "IntrinsicType" -> "intrinsic_type"
      [] kind = "Block" -> "block"
      [] kind = "Entry" -> "entry"
      [] kind = "StorageClass" -> "storage_class"
      [] kind = "Builtin" -> "builtin"
      [] kind = "DescriptorSet" -> "descriptor_set"
      [] kind = "Binding" -> "binding"
      [] kind = "Flat" -> "flat"
      [] kind = "UnrollLoops" -> "unroll_loops"

CategoryOf(kind) ==
    CASE kind = "IntrinsicType" -> "intrinsic type"
      [] kind = "Block" -> "#[spirv(block)]"
      [] kind = "Entry" -> "entry-point"
      [] kind = "StorageClass" -> "storage class"
      [] kind = "Builtin" -> "builtin"
      [] kind = "DescriptorSet" -> "#[spirv(descriptor_set)]"
      [] kind = "Binding" -> "#[spirv(binding)]"
      [] kind = "Flat" -> "#[spirv(flat)]"
      [] kind = "UnrollLoops" -> "#[spirv(unroll_loops)]"

\* Result<(), E>.
Ok == [ok |-> TRUE, err |-> <<>>]

Err(e) == [ok |-> FALSE, err |-> <<e>>]

MultipleAttrs(prev_span, category) == [prev_span |-> prev_span, category |-> category]

\* A slot that a later insert overwrites.
try_insert_overwrite(slot, value, span, category) ==
    [slot |-> Some(Spanned(value, span)),
     res |-> IF IsSome(slot) THEN Err(MultipleAttrs(slot[1].span, category)) ELSE Ok]

\* A conflict that reports the span of the new attribute, not the previous one.
try_insert_newspan(slot, value, span, category) ==
    IF IsSome(slot)
    THEN [slot |-> slot, res |-> Err(MultipleAttrs(span, category))]
    ELSE [slot |-> Some(Spanned(value, span)), res |-> Ok]

\* fn try_insert: a populated slot is a conflict carrying the previous span.
try_insert(slot, value, span, category) ==
    IF IsSome(slot)
    THEN [slot |-> slot, res |-> Err(MultipleAttrs(slot[1].span, category))]
    ELSE [slot |-> Some(Spanned(value, span)), res |-> Ok]

\* AggregatedSpirvAttributes::try_insert_attr: the new set and the result.
try_insert_attr(agg, attr, span) ==
    LET r == try_insert(agg[SlotOf(attr.kind)], attr.value, span, CategoryOf(attr.kind))
    IN  [agg |-> [agg EXCEPT ![SlotOf(attr.kind)] = r.slot], res |-> r.res]

(***************************************************************************)
(* Raw annotations and their parser (crate::symbols, outside attr.rs).     *)
(***************************************************************************)
\* The argument name that selects each variant.
KindOfName(name) ==
    CASE name = "intrinsic_type" -> "IntrinsicType"
      [] name = "block" -> "Block"
      [] name = "entry" -> "Entry"
      [] name = "storage_class" -> "StorageClass"
      [] name = "builtin" -> "Builtin"
      [] name = "descriptor_set" -> "DescriptorSet"
      [] name = "binding" -> "Binding"
      [] name = "flat" -> "Flat"
      [] name = "unroll_loops" -> "UnrollLoops"

\* One annotation as written: its path, and the name and arguments inside it.
Syntax(path, name, args) == [path |-> path, name |-> name, args |-> args]

\* Well-formed #[spirv(..)] annotations with payload v for the valued ones.
WellFormed(values) ==
    {Syntax("spirv", n, <<>>) : n \in {"block", "flat", "unroll_loops"}}
        \cup {Syntax("spirv", n, <<v>>) :
                n \in {"intrinsic_type", "entry", "storage_class", "builtin",
                       "descriptor_set", "binding"},
                v \in values}

Malformed == Syntax("spirv", "bogus", <<>>)

WrongArity == Syntax("spirv", "binding", <<>>)

NotSpirv == Syntax("inline", "always", <<>>)

\* Annotations a position of the model may carry: every category, a second
\* payload for two of them, a malformed one and one that is not #[spirv(..)].
AttrPool ==
    WellFormed({1})
        \cup {Syntax("spirv", "entry", <<2>>), Syntax("spirv", "binding", <<2>>)}
        \cup {Malformed, NotSpirv}

\* Sequences over S of length at most n.
SeqUpTo(S, n) == UNION {[1..k -> S] : k \in 0..n}

\* The attributes of node hir_id: each annotation with its span.
Attributes(hir_id, syn) ==
    [i \in 1..Len(syn) |->
        [path |-> syn[i].path, name |-> syn[i].name, args |-> syn[i].args,
         span |-> <<hir_id, i>>]]

\* Parsing one #[spirv(..)] annotation: Ok((span, attr)) or Err((span, msg)).
ParseAttr(attr) ==
    IF attr.name \in {"block", "flat", "unroll_loops"} /\ attr.args = <<>>
    THEN [ok |-> TRUE, span |-> attr.span,
          attr |-> [kind |-> KindOfName(attr.name), value |-> <<>>], msg |-> ""]
    ELSE IF attr.name \in {"intrinsic_type", "entry", "storage_class", "builtin",
                           "descriptor_set", "binding"} /\ Len(attr.args) = 1
    THEN [ok |-> TRUE, span |-> attr.span,
          attr |-> [kind |-> KindOfName(attr.name), value |-> attr.args], msg |-> ""]
    ELSE [ok |-> FALSE, span |-> attr.span,
          attr |-> [kind |-> "", value |-> <<>>], msg |-> "malformed spirv attribute"]

\* symbols::parse_attrs_for_checking: the #[spirv(..)] attributes of the list,
\* in source order, each with its parse result.
parse_attrs_for_checking(attrs) ==
    LET RECURSIVE Walk(_)
        Walk(i) ==
            IF i > Len(attrs) THEN <<>>
            ELSE IF attrs[i].path = "spirv"
                 THEN <<[attr |-> attrs[i], res |-> ParseAttr(attrs[i])]>> \o Walk(i + 1)
                 ELSE Walk(i + 1)
    IN  Walk(1)

(***************************************************************************)
(* Diagnostics.                                                            *)
(***************************************************************************)
\* sess.span_err(span, msg) and struct_span_err(..).span_note(..).emit().
Diagnostic(span, msg, note) == [level |-> "error", span |-> span, msg |-> msg, note |-> note]

SpanErr(span, msg) == Diagnostic(span, msg, <<>>)

OrphanMsg == <<"attribute is only valid on a parameter of an entry-point function">>

IllegalMsg(expected_target, target) ==
    <<"attribute is only valid on a", expected_target, "not on a", target>>

ConflictMsg(category, target) == <<"only one", category, "attribute is allowed on a", target>>

PreviousNote(prev_span, category) ==
    [span |-> prev_span, msg |-> <<"previous", category, "attribute">>]

MacroMsg == <<"#[spirv(..)] cannot be applied to a macro">>

(***************************************************************************)
(* check_spirv_attributes.                                                 *)
(***************************************************************************)
\* rustc_hir::Target, as far as the pass distinguishes it.
Targets ==
    {"Struct", "Fn", "Closure", "Param", "MethodTraitBody", "MethodTraitNoBody",
     "MethodInherent", "MacroDef", "Mod", "Field"}

FnLike == {"Fn", "MethodTraitBody", "MethodInherent"}

\* Entry-point accepted wherever unroll_loops is (closures too).
valid_target_entry_on_closure(kind, target) ==
    CASE kind \in {"IntrinsicType", "Block"} ->
            IF target = "Struct" THEN Ok ELSE Err("struct")
      [] kind = "Entry" ->
            IF target \in FnLike \cup {"Closure"} THEN Ok ELSE Err("function")
      [] kind \in {"StorageClass", "Builtin", "DescriptorSet", "Binding", "Flat"} ->
            IF target = "Param" THEN Ok ELSE Err("function parameter")
      [] kind = "UnrollLoops" ->
            IF target \in FnLike \cup {"Closure"} THEN Ok ELSE Err("function or closure")

\* The match on parsed_attr and target: Ok(()) or Err(Expected(..)).
valid_target(kind, target) ==
    CASE kind \in {"IntrinsicType", "Block"} ->
            IF target = "Struct" THEN Ok ELSE Err("struct")
      [] kind = "Entry" ->
            IF target \in FnLike THEN Ok ELSE Err("function")
      [] kind \in {"StorageClass", "Builtin", "DescriptorSet", "Binding", "Flat"} ->
            IF target = "Param" THEN Ok ELSE Err("function parameter")
      [] kind = "UnrollLoops" ->
            IF target \in FnLike \cup {"Closure"} THEN Ok ELSE Err("function or closure")

\* The parent counts as an entry point only if its entry attribute is legal there.
parent_is_entry_point_legal(h, hir_id) ==
    LET parent_hir_id == h.parent[hir_id]
        parsed == parse_attrs_for_checking(h.attrs[parent_hir_id])
    IN  \E i \in 1..Len(parsed) :
            /\ parsed[i].res.ok
            /\ parsed[i].res.attr.kind = "Entry"
            /\ h.target[parent_hir_id] \in FnLike

\* Some attribute of the parent node parses to SpirvAttribute::Entry.
parent_is_entry_point(h, hir_id) ==
    LET parent_hir_id == h.parent[hir_id]
        parsed == parse_attrs_for_checking(h.attrs[parent_hir_id])
    IN  \E i \in 1..Len(parsed) :
            parsed[i].res.ok /\ parsed[i].res.attr.kind = "Entry"

\* What one run over a position's attributes has done so far.
CheckState(agg, diags, used) == [agg |-> agg, diags |-> diags, used |-> used]

\* A parse failure that ends the whole check of the position.
on_parse_failure_return(st, res, marked) ==
    [st |-> CheckState(st.agg, Append(st.diags, SpanErr(res.span, <<res.msg>>)), marked),
     stop |-> TRUE]

\* Err((span, msg)) => { span_err(span, &msg); continue; }
on_parse_failure(st, res, marked) ==
    [st |-> CheckState(st.agg, Append(st.diags, SpanErr(res.span, <<res.msg>>)), marked),
     stop |-> FALSE]

\* A parameter rule that never reports.
param_rule_silent(h, hir_id, diags, span) == diags

\* Target::Param arm: report an attribute whose parent is no entry point.
param_rule(h, hir_id, diags, span) ==
    IF ~parent_is_entry_point(h, hir_id)
    THEN Append(diags, SpanErr(span, OrphanMsg))
    ELSE diags

\* A conflict that is dropped without a diagnostic.
report_conflict_silent(diags, span, multiple, target) == diags

\* Err(MultipleAttrs { prev_span, category }): the error with its note.
report_conflict(diags, span, multiple, target) ==
    Append(diags, Diagnostic(span, ConflictMsg(multiple.category, target),
                             <<PreviousNote(multiple.prev_span, multiple.category)>>))

\* The body of the for loop, for one (attr, parse_attr_result): mark the
\* attribute used, report a parse failure, else check the target (with the
\* parameter rule) and report it or insert the attribute, reporting a conflict.
check_one(h, hir_id, target, st, pair) ==
    LET res == pair.res
        marked == Append(st.used, pair.attr.span)
    IN  IF ~res.ok
        THEN on_parse_failure(st, res, marked)
        ELSE LET vt == valid_target(res.attr.kind, target)
                 d1 == IF vt.ok /\ target = "Param"
                       THEN param_rule(h, hir_id, st.diags, res.span)
                       ELSE st.diags
             IN  IF ~vt.ok
                 THEN [st |-> CheckState(st.agg,
                                Append(d1, SpanErr(res.span, IllegalMsg(vt.err[1], target))),
                                marked),
                       stop |-> FALSE]
                 ELSE LET ins == try_insert_attr(st.agg, res.attr, res.span)
                      IN  [st |-> CheckState(ins.agg,
                                    IF ins.res.ok THEN d1
                                    ELSE report_conflict(d1, res.span, ins.res.err[1], target),
                                    marked),
                           stop |-> FALSE]

\* CheckSpirvAttrVisitor::check_spirv_attributes(hir_id, target): the set it
\* aggregated, the diagnostics it emitted and the attributes it marked used.
check_spirv_attributes(h, hir_id, target) ==
    LET parsed == parse_attrs_for_checking(h.attrs[hir_id])
        RECURSIVE Loop(_, _)
        Loop(i, st) ==
            IF i > Len(parsed) THEN st
            ELSE LET r == check_one(h, hir_id, target, st, parsed[i])
                 IN  IF r.stop THEN r.st ELSE Loop(i + 1, r.st)
    IN  Loop(1, CheckState(DefaultAggregated, <<>>, <<>>))

\* AggregatedSpirvAttributes::parse(cx, attrs): the set for codegen, and the
\* delayed bugs (delay_span_bug) for parse failures and duplicates.
parse(attrs) ==
    LET parsed == parse_attrs_for_checking(attrs)
        RECURSIVE Loop(_, _)
        Loop(i, st) ==
            IF i > Len(parsed) THEN st
            ELSE IF ~parsed[i].res.ok
                 THEN Loop(i + 1, [st EXCEPT !.bugs =
                        Append(@, [span |-> parsed[i].res.span, msg |-> <<parsed[i].res.msg>>])])
                 ELSE LET ins == try_insert_attr(st.agg, parsed[i].res.attr, parsed[i].res.span)
                      IN  IF ins.res.ok
                          THEN Loop(i + 1, [st EXCEPT !.agg = ins.agg])
                          ELSE Loop(i + 1, [st EXCEPT !.agg = ins.agg, !.bugs =
                                  Append(@, [span |-> parsed[i].res.span,
                                             msg |-> <<"multiple", ins.res.err[1].category,
                                                       "attributes">>])])
    IN  Loop(1, [agg |-> DefaultAggregated, bugs |-> <<>>])


(***************************************************************************)
(* Spec: one position is validated, then consumed by codegen.              *)
(***************************************************************************)
\* A tree of one position "pos" under its parent node "parent".
PositionHir(target, syn, ptarget, psyn) ==
    [attrs |-> [pos |-> Attributes("pos", syn), parent |-> Attributes("parent", psyn)],
     parent |-> [pos |-> "parent", parent |-> "parent"],
     target |-> [pos |-> target, parent |-> ptarget]]

ParamPool ==
    {Syntax("spirv", n, <<1>>) :
        n \in {"storage_class", "builtin", "descriptor_set", "binding"}}
        \cup {Syntax("spirv", "flat", <<>>), Malformed}

ParentPool ==
    {Syntax("spirv", "entry", <<1>>), Syntax("spirv", "unroll_loops", <<>>), WrongArity}

\* The positions of the model: every target kind with every annotation list,
\* and parameters under every parent.
PositionInput(h) ==
    \/ \E t \in Targets \ {"Param"}, syn \in SeqUpTo(AttrPool, MaxAttrs) :
            h = PositionHir(t, syn, "Mod", <<>>)
    \/ \E syn \in SeqUpTo(AttrPool, MaxAttrs),
          psyn \in {<<>>, <<Syntax("spirv", "entry", <<1>>)>>} :
            h = PositionHir("Param", syn, "Fn", psyn)
    \/ \E syn \in SeqUpTo(ParamPool, MaxParentAttrs), pt \in {"Fn", "Closure"},
          psyn \in SeqUpTo(ParentPool, MaxParentAttrs) :
            h = PositionHir("Param", syn, pt, psyn)

NoCheck == CheckState(DefaultAggregated, <<>>, <<>>)

NoParse == [agg |-> DefaultAggregated, bugs |-> <<>>]

NoHir == PositionHir("Mod", <<>>, "Mod", <<>>)

\* No hook invocation is running.
NoInvocation == [module |-> 0, step |-> 0]

Init ==
    /\ PositionInput(hir)
    /\ pc = "start"
    /\ checked = NoCheck
    /\ consumed = NoParse
    /\ self = DefaultAggregated
    /\ calls = <<>>
    /\ pending = {}
    /\ cur = NoInvocation
    /\ session = <<>>

\* The walker's visit_* method reaches the position and checks it.
Validate ==
    /\ pc = "start"
    /\ checked' = check_spirv_attributes(hir, "pos", hir.target["pos"])
    /\ pc' = "validated"
    /\ UNCHANGED <<self, calls, hir, consumed, pending, cur, session>>

\* Codegen computes the aggregated attributes of the same node.
Consume ==
    /\ pc = "validated"
    /\ consumed' = parse(hir.attrs["pos"])
    /\ pc' = "consumed"
    /\ UNCHANGED <<self, calls, hir, checked, pending, cur, session>>

Next == Validate \/ Consume

Spec == Init /\ [][Next]_vars


(***************************************************************************)
(* SpecInsert: try_insert_attr calls on one AggregatedSpirvAttributes.     *)
(***************************************************************************)
InitInsert ==
    /\ self = DefaultAggregated
    /\ calls = <<>>
    /\ pc = "insert"
    /\ hir = NoHir
    /\ checked = NoCheck
    /\ consumed = NoParse
    /\ pending = {}
    /\ cur = NoInvocation
    /\ session = <<>>

\* self.try_insert_attr(attr, span), the span being that of the n-th call.
TryInsertAttr ==
    /\ pc = "insert"
    /\ Len(calls) < MaxCalls
    /\ \E attr \in SpirvAttribute :
        LET span == <<"call", Len(calls) + 1>>
            r == try_insert_attr(self, attr, span)
        IN  /\ self' = r.agg
            /\ calls' = Append(calls, [attr |-> attr, span |-> span, res |-> r.res,
                                       before |-> self, after |-> r.agg])
    /\ UNCHANGED <<hir, pc, checked, consumed, pending, cur, session>>

NextInsert == TryInsertAttr

SpecInsert == InitInsert /\ [][NextInsert]_vars

(***************************************************************************)
(* SpecCrate: the check_mod_attrs query runs once for each module.         *)
(***************************************************************************)
CRATE_HIR_ID == <<"crate", 0>>

Modules == 1..NumModules

\* LocalDefId::is_top_level_module.
is_top_level_module(module_def_id) == module_def_id = 1

\* A crate whose every position carries the annotations syn: each module holds
\* a function with one parameter and a struct; the crate exports two macros
\* and has macro-level annotations that no exported macro owns.
CrateNodes ==
    {CRATE_HIR_ID, <<"macro", 1>>, <<"macro", 2>>}
        \cup {<<n, m>> : n \in {"fn", "param", "struct"}, m \in Modules}

CrateHir(syn) ==
    [attrs |-> [n \in CrateNodes |-> Attributes(n, syn)],
     parent |-> [n \in CrateNodes |->
                    IF n[1] = "param" THEN <<"fn", n[2]>> ELSE CRATE_HIR_ID],
     target |-> [n \in CrateNodes |->
                    CASE n[1] = "fn" -> "Fn"
                      [] n[1] = "param" -> "Param"
                      [] n[1] = "struct" -> "Struct"
                      [] n[1] = "macro" -> "MacroDef"
                      [] n[1] = "crate" -> "Mod"],
     items |-> [m \in Modules |-> <<<<"fn", m>>, <<"param", m>>, <<"struct", m>>>>],
     exported_macros |-> <<<<"macro", 1>>, <<"macro", 2>>>>,
     non_exported_macro_attrs |-> Attributes(<<"nonexported", 0>>, syn)]

\* Annotations for the longer lists of the crate.
NarrowPool ==
    {Syntax("spirv", "entry", <<1>>), Syntax("spirv", "binding", <<1>>),
     Syntax("spirv", "block", <<>>), Malformed, NotSpirv}

WidePool == WellFormed({1}) \cup {Malformed, NotSpirv}

\* One check_spirv_attributes call, as the walker makes it.
Visit(h, hir_id, target) ==
    [hir_id |-> hir_id, target |-> target,
     result |-> check_spirv_attributes(h, hir_id, target)]

\* A macro definition checked as if it were a function.
visit_macro_def_as_fn(h, hir_id) == Visit(h, hir_id, "Fn")

\* Visitor::visit_macro_def.
visit_macro_def(h, hir_id) == Visit(h, hir_id, "MacroDef")

\* visit_item_likes_in_module with the deep visitor: the visit_* method of
\* each position of the module, in walk order, with the position's target.
visit_item_likes_in_module(h, module_def_id) ==
    [i \in 1..Len(h.items[module_def_id]) |->
        Visit(h, h.items[module_def_id][i], h.target[h.items[module_def_id][i]])]

\* The loop over krate().exported_macros.
visit_exported_macros(h) ==
    [i \in 1..Len(h.exported_macros) |-> visit_macro_def(h, h.exported_macros[i])]

\* check_invalid_macro_level_spirv_attr: an error at each #[spirv(..)] attribute.
check_invalid_macro_level_spirv_attr(attrs) ==
    LET spirv == SelectSeq(attrs, LAMBDA a : a.path = "spirv")
    IN  [i \in 1..Len(spirv) |-> SpanErr(spirv[i].span, MacroMsg)]

\* A walker that checks the macros only with the top-level module.
check_mod_attrs_macros_once(h, module_def_id) ==
    [items |-> visit_item_likes_in_module(h, module_def_id),
     macros |-> IF is_top_level_module(module_def_id)
                THEN visit_exported_macros(h)
                ELSE <<>>,
     macro_level |-> IF is_top_level_module(module_def_id)
                     THEN check_invalid_macro_level_spirv_attr(h.non_exported_macro_attrs)
                     ELSE <<>>,
     root |-> IF is_top_level_module(module_def_id)
              THEN <<Visit(h, CRATE_HIR_ID, "Mod")>>
              ELSE <<>>]

\* fn check_mod_attrs(tcx, module_def_id), in the order it works: the visits
\* of the module's positions, the visits of the exported macros, the errors
\* at the macro-level attributes, and the visit of the crate root.
check_mod_attrs(h, module_def_id) ==
    [items |-> visit_item_likes_in_module(h, module_def_id),
     macros |-> visit_exported_macros(h),
     macro_level |-> check_invalid_macro_level_spirv_attr(h.non_exported_macro_attrs),
     root |-> IF is_top_level_module(module_def_id)
              THEN <<Visit(h, CRATE_HIR_ID, "Mod")>>
              ELSE <<>>]

\* A hook that runs the spirv checks before the default ones.
hook_steps_swapped == <<"spirv", "default">>

\* The closure provide installs: the default check_mod_attrs, then ours.
hook_steps == <<"default", "spirv">>

\* The crates of the model: short lists over every category, longer lists
\* over a few annotations.
CrateInput(h) ==
    \/ \E syn \in SeqUpTo(WidePool, MaxWideAttrs) : h = CrateHir(syn)
    \/ \E syn \in SeqUpTo(NarrowPool, MaxAttrs) : h = CrateHir(syn)

InitCrate ==
    /\ CrateInput(hir)
    /\ pending = Modules
    /\ pc = "idle"
    /\ cur = NoInvocation
    /\ session = <<>>
    /\ self = DefaultAggregated
    /\ calls = <<>>
    /\ checked = NoCheck
    /\ consumed = NoParse

\* The step of the hook that has just run was its last one, or not.
Advance ==
    IF cur.step = Len(hook_steps)
    THEN pc' = "idle" /\ cur' = NoInvocation
    ELSE pc' = "hook" /\ cur' = [cur EXCEPT !.step = @ + 1]

\* The host runs the check_mod_attrs query of a module: the hook is called.
CallHook ==
    /\ pc = "idle"
    /\ \E m \in pending :
        /\ pending' = pending \ {m}
        /\ cur' = [module |-> m, step |-> 1]
    /\ pc' = "hook"
    /\ UNCHANGED <<self, calls, hir, checked, consumed, session>>

\* (DEFAULT_QUERY_PROVIDERS.check_mod_attrs)(tcx, def_id): the host's checks,
\* which may report errors of their own.
DefaultCheckModAttrs ==
    /\ pc = "hook"
    /\ hook_steps[cur.step] = "default"
    /\ \E failed \in BOOLEAN :
        session' = Append(session,
                    [by |-> "default", module |-> cur.module,
                     diags |-> IF failed
                               THEN <<SpanErr(<<<<"host", cur.module>>, 0>>,
                                              <<"error of the default checks">>)>>
                               ELSE <<>>])
    /\ Advance
    /\ UNCHANGED <<self, calls, hir, checked, consumed, pending>>

\* check_mod_attrs(tcx, def_id): the spirv checks of the module.
CheckModAttrs ==
    /\ pc = "hook"
    /\ hook_steps[cur.step] = "spirv"
    /\ session' = Append(session,
                    [by |-> "spirv", module |-> cur.module,
                     did |-> check_mod_attrs(hir, cur.module)])
    /\ Advance
    /\ UNCHANGED <<self, calls, hir, checked, consumed, pending>>

NextCrate == CallHook \/ DefaultCheckModAttrs \/ CheckModAttrs

SpecCrate == InitCrate /\ [][NextCrate]_vars

(***************************************************************************)
(* Properties of the validated position (Spec).                            *)
(***************************************************************************)
PosTarget == hir.target["pos"]

\* The #[spirv(..)] annotations of the position, in source order.
PosSpirv == SelectSeq(hir.attrs["pos"], LAMBDA a : a.path = "spirv")

\* Annotation a is well-formed; the variant it stands for.
IsWellFormed(a) ==
    \/ a.name \in {"block", "flat", "unroll_loops"} /\ a.args = <<>>
    \/ /\ a.name \in {"intrinsic_type", "entry", "storage_class", "builtin",
                      "descriptor_set", "binding"}
       /\ Len(a.args) = 1

\* The well-formed annotations of kind k among sp, and the first of them.
OfKindIn(sp, k) == {i \in 1..Len(sp) : IsWellFormed(sp[i]) /\ KindOfName(sp[i].name) = k}

FirstIn(S) == CHOOSE i \in S : \A j \in S : i <= j

OfKind(k) == OfKindIn(PosSpirv, k)

\* The slot value that holds annotation a.
SlotHolding(a) == Some(Spanned(a.args, a.span))

ParamKinds == {"StorageClass", "Builtin", "DescriptorSet", "Binding", "Flat"}

\* The legality table and the expected class of each category, as specified.
LegalTargets(k) ==
    CASE k \in {"IntrinsicType", "Block"} -> {"Struct"}
      [] k = "Entry" -> {"Fn", "MethodTraitBody", "MethodInherent"}
      [] k \in ParamKinds -> {"Param"}
      [] k = "UnrollLoops" -> {"Fn", "Closure", "MethodTraitBody", "MethodInherent"}

ExpectedClass(k) ==
    CASE k \in {"IntrinsicType", "Block"} -> "struct"
      [] k = "Entry" -> "function"
      [] k \in ParamKinds -> "function parameter"
      [] k = "UnrollLoops" -> "function or closure"

\* Indices of the validation diagnostics at a span, and with a message.
DiagsAt(span) == {j \in 1..Len(checked.diags) : checked.diags[j].span = span}

DiagsWith(msg) == {j \in 1..Len(checked.diags) : checked.diags[j].msg = msg}

\* Some annotation of the parent node is a well-formed entry-point decoration.
ParentCarriesEntry ==
    \E j \in 1..Len(hir.attrs["parent"]) :
        /\ hir.attrs["parent"][j].path = "spirv"
        /\ hir.attrs["parent"][j].name = "entry"
        /\ Len(hir.attrs["parent"][j].args) = 1

\* C2 as stated: k >= 2 well-formed, legal decorations of one category at a
\* position give exactly one conflict diagnostic, whose note is at the first
\* decoration, and the first decoration is the one retained.
C2_OneConflictWhateverK ==
    pc # "start" =>
        LET sp == PosSpirv
        IN  \A k \in Kinds :
                LET dup == OfKindIn(sp, k)
                    conflicts == DiagsWith(ConflictMsg(CategoryOf(k), PosTarget))
                IN  (Cardinality(dup) >= 2 /\ PosTarget \in LegalTargets(k)) =>
                        /\ Cardinality(conflicts) = 1
                        /\ \A j \in conflicts :
                                /\ Len(checked.diags[j].note) = 1
                                /\ checked.diags[j].note[1].span = sp[FirstIn(dup)].span
                        /\ checked.agg[SlotOf(k)] = SlotHolding(sp[FirstIn(dup)])

\* C2 amended: k >= 2 well-formed, legal decorations of one category at a
\* position give exactly k - 1 conflict diagnostics, one at each decoration
\* after the first; the note of each is at the first decoration, and the first
\* decoration is the one retained.
C2_ConflictPerDuplicate ==
    pc # "start" =>
        LET sp == PosSpirv
        IN  \A k \in Kinds :
                LET dup == OfKindIn(sp, k)
                    conflicts == DiagsWith(ConflictMsg(CategoryOf(k), PosTarget))
                IN  (Cardinality(dup) >= 2 /\ PosTarget \in LegalTargets(k)) =>
                        /\ Cardinality(conflicts) = Cardinality(dup) - 1
                        /\ \A i \in dup \ {FirstIn(dup)} :
                                \E j \in conflicts : checked.diags[j].span = sp[i].span
                        /\ \A j \in conflicts :
                                /\ Len(checked.diags[j].note) = 1
                                /\ checked.diags[j].note[1].span = sp[FirstIn(dup)].span
                        /\ checked.agg[SlotOf(k)] = SlotHolding(sp[FirstIn(dup)])

\* Three entry-point decorations with different payloads on a function.
C2_Witness ==
    /\ pc = "validated"
    /\ PosTarget = "Fn"
    /\ Cardinality(OfKind("Entry")) = 3
    /\ PosSpirv[1].args # PosSpirv[2].args
    /\ Len(checked.diags) = 2

\* C3: a well-formed decoration that is the first of its category at a position
\* is stored in the aggregated set iff the target kind is in the category's
\* legal set; on any other target kind it is discarded with one diagnostic
\* naming the expected class and the actual target kind.
C3_LegalityTable ==
    pc # "start" =>
        LET sp == PosSpirv
        IN  \A k \in Kinds :
                LET all == OfKindIn(sp, k)
                IN  all # {} =>
                        LET first == sp[FirstIn(all)]
                            at == DiagsAt(first.span)
                        IN  /\ (checked.agg[SlotOf(k)] = SlotHolding(first))
                                    <=> (PosTarget \in LegalTargets(k))
                            /\ PosTarget \notin LegalTargets(k) =>
                                    /\ checked.agg[SlotOf(k)] = None
                                    /\ Cardinality(at) = 1
                                    /\ \A j \in at :
                                            checked.diags[j] =
                                                SpanErr(first.span,
                                                        IllegalMsg(ExpectedClass(k), PosTarget))

\* An entry-point decoration on a trait method without a body, and an
\* unroll_loops decoration on a closure.
C3_Witness ==
    /\ pc = "validated"
    /\ \/ /\ PosTarget = "MethodTraitNoBody"
          /\ OfKind("Entry") # {}
          /\ checked.agg["entry"] = None
          /\ checked.diags # <<>>
       \/ /\ PosTarget = "Closure"
          /\ OfKind("UnrollLoops") # {}
          /\ IsSome(checked.agg["unroll_loops"])

\* C4: every parameter decoration on a Param whose parent carries no
\* entry-point decoration gets the orphaned-parameter diagnostic and is still
\* inserted: its slot is populated, by it if it is the first of its category.
C4_OrphanStillInserted ==
    (pc # "start" /\ PosTarget = "Param" /\ ~ParentCarriesEntry) =>
        LET sp == PosSpirv
        IN  \A k \in ParamKinds :
                LET all == OfKindIn(sp, k)
                IN  /\ \A i \in all :
                            /\ \E j \in DiagsAt(sp[i].span) :
                                    checked.diags[j] = SpanErr(sp[i].span, OrphanMsg)
                            /\ IsSome(checked.agg[SlotOf(k)])
                    /\ all # {} => checked.agg[SlotOf(k)] = SlotHolding(sp[FirstIn(all)])

C4_Witness ==
    /\ pc = "validated"
    /\ PosTarget = "Param"
    /\ ~ParentCarriesEntry
    /\ OfKind("Binding") # {}
    /\ OfKind("Flat") # {}
    /\ IsSome(checked.agg["binding"])

\* C7: when validation of the position emitted no diagnostic, the consumption
\* time parse raises no delayed bug and yields the validation-time set.
C7_SilentValidationThenCleanParse ==
    (pc = "consumed" /\ checked.diags = <<>>) =>
        /\ consumed.bugs = <<>>
        /\ consumed.agg = checked.agg

C7_Witness ==
    /\ pc = "consumed"
    /\ checked.diags = <<>>
    /\ PosTarget = "Struct"
    /\ IsSome(consumed.agg["intrinsic_type"])
    /\ IsSome(consumed.agg["block"])

\* C9: the orphaned-parameter diagnostic is emitted for a parameter decoration
\* iff no annotation of the parent node parses to an entry-point decoration,
\* whatever the parent's own target kind is.
C9_OrphanIffParentHasNoEntry ==
    (pc # "start" /\ PosTarget = "Param") =>
        LET sp == PosSpirv
            orphaned == ~ParentCarriesEntry
        IN  \A k \in ParamKinds :
                \A i \in OfKindIn(sp, k) :
                    (\E j \in DiagsAt(sp[i].span) : checked.diags[j].msg = OrphanMsg)
                        <=> orphaned

\* A closure with an entry-point decoration (rejected there) and a decorated
\* parameter: no orphaned-parameter diagnostic.
C9_Witness ==
    /\ pc = "validated"
    /\ PosTarget = "Param"
    /\ hir.target["parent"] = "Closure"
    /\ ParentCarriesEntry
    /\ check_spirv_attributes(hir, "parent", "Closure").diags # <<>>
    /\ check_spirv_attributes(hir, "parent", "Closure").agg["entry"] = None
    /\ OfKind("Binding") # {}
    /\ checked.diags = <<>>


(***************************************************************************)
(* Properties of try_insert_attr (SpecInsert).                             *)
(***************************************************************************)
\* The calls before call i that were of the same category.
EarlierSame(i) == {j \in 1..(i - 1) : calls[j].attr.kind = calls[i].attr.kind}

\* C1: the first insert of a category stores the value and span and returns
\* Ok, changing no other slot; every later insert of the category returns the
\* conflict whose prev_span is the span of that first insert and changes no
\* slot at all; so the set always holds the first insert of each category.
C1_FirstInsertWins ==
    /\ \A i \in 1..Len(calls) :
            LET c == calls[i]
                slot == SlotOf(c.attr.kind)
            IN  IF EarlierSame(i) = {}
                THEN /\ c.res.ok
                     /\ c.after = [c.before EXCEPT ![slot] = Some(Spanned(c.attr.value, c.span))]
                ELSE /\ ~c.res.ok
                     /\ c.res.err[1].prev_span = calls[FirstIn(EarlierSame(i))].span
                     /\ c.res.err[1].category = CategoryOf(c.attr.kind)
                     /\ c.after = c.before
    /\ \A k \in Kinds :
            LET of == {i \in 1..Len(calls) : calls[i].attr.kind = k}
            IN  self[SlotOf(k)] =
                    IF of = {} THEN None
                    ELSE Some(Spanned(calls[FirstIn(of)].attr.value, calls[FirstIn(of)].span))

\* A binding, another category, then a binding with another payload.
C1_Witness ==
    /\ Len(calls) = 3
    /\ calls[1].attr.kind = "Binding"
    /\ calls[2].attr.kind = "Entry"
    /\ calls[3].attr.kind = "Binding"
    /\ calls[3].attr.value # calls[1].attr.value
    /\ ~calls[3].res.ok

(***************************************************************************)
(* Properties of the hook and the walker (SpecCrate).                      *)
(***************************************************************************)
\* The runs of check_mod_attrs so far.
SpirvRuns == {i \in 1..Len(session) : session[i].by = "spirv"}

\* The #[spirv(..)] annotations of a list of attributes, in source order.
SpirvOf(attrs) == SelectSeq(attrs, LAMBDA a : a.path = "spirv")

\* The positions a run visited, in order.
VisitsOf(did) == did.items \o did.macros \o did.root

\* The diagnostics of a visit at a span.
VisitDiagsAt(v, span) == {j \in 1..Len(v.result.diags) : v.result.diags[j].span = span}

\* C5: every run of the walker checks every exported macro definition with the
\* target kind MacroDef and reports an error at each of its #[spirv(..)]
\* annotations, aggregating none; it reports an error at each macro-level
\* #[spirv(..)] annotation that no exported macro owns; and no annotation of
\* a macro is in any aggregated set.
C5_MacrosRejected ==
    \A r \in SpirvRuns :
        LET did == session[r].did
        IN  /\ Len(did.macros) = Len(hir.exported_macros)
            /\ \A m \in 1..Len(did.macros) :
                    LET v == did.macros[m]
                        sp == SpirvOf(hir.attrs[hir.exported_macros[m]])
                    IN  /\ v.hir_id = hir.exported_macros[m]
                        /\ v.target = "MacroDef"
                        /\ v.result.agg = DefaultAggregated
                        /\ \A i \in 1..Len(sp) :
                                \E j \in VisitDiagsAt(v, sp[i].span) :
                                    v.result.diags[j].level = "error"
            /\ LET sp == SpirvOf(hir.non_exported_macro_attrs)
               IN  \A i \in 1..Len(sp) :
                        \E j \in 1..Len(did.macro_level) :
                            did.macro_level[j] = SpanErr(sp[i].span, MacroMsg)
            /\ LET visits == VisitsOf(did)
               IN  \A n \in 1..Len(visits) :
                        \A slot \in Slots :
                            IsSome(visits[n].result.agg[slot]) =>
                                visits[n].result.agg[slot][1].span[1][1]
                                    \notin {"macro", "nonexported"}

\* Macros that carry unroll_loops, which would be legal on a function.
C5_Witness ==
    /\ SpirvRuns # {}
    /\ Len(hir.non_exported_macro_attrs) = 1
    /\ hir.non_exported_macro_attrs[1].name = "unroll_loops"
    /\ \E r \in SpirvRuns : Len(session[r].did.macros[2].result.diags) = 1

\* C6: in every invocation of the hook the default check_mod_attrs of the
\* module runs first and the spirv walker runs right after it on the same
\* module, whether or not the default check reported errors; the walker never
\* runs without the default check before it, and once the hook has returned
\* both have run, once each.
C6_DefaultThenWalker ==
    /\ \A i \in 1..Len(session) :
            /\ session[i].by = "spirv" =>
                    /\ i > 1
                    /\ session[i - 1].by = "default"
                    /\ session[i - 1].module = session[i].module
            /\ session[i].by = "default" =>
                    IF i < Len(session)
                    THEN /\ session[i + 1].by = "spirv"
                         /\ session[i + 1].module = session[i].module
                    ELSE pc = "hook" /\ cur.module = session[i].module
    /\ pc = "idle" =>
            \A m \in Modules \ pending :
                /\ Cardinality({i \in 1..Len(session) :
                        session[i].by = "default" /\ session[i].module = m}) = 1
                /\ Cardinality({i \in SpirvRuns : session[i].module = m}) = 1

\* The default check reported an error and the walker ran all the same.
C6_Witness ==
    /\ pc = "idle"
    /\ Len(session) = 2
    /\ session[1].by = "default"
    /\ session[1].diags # <<>>
    /\ session[2].by = "spirv"
    /\ Len(session[2].did.items) = 3

\* Some annotation of the parent of node n is a well-formed entry-point.
ParentOfCarriesEntry(n) ==
    \E j \in 1..Len(hir.attrs[hir.parent[n]]) :
        /\ hir.attrs[hir.parent[n]][j].path = "spirv"
        /\ hir.attrs[hir.parent[n]][j].name = "entry"
        /\ Len(hir.attrs[hir.parent[n]][j].args) = 1

\* Visit v treated each #[spirv(..)] annotation of its node as the annotation
\* alone decides, whatever happened to the ones before it.
EachAnnotationProcessed(v) ==
    LET sp == SpirvOf(hir.attrs[v.hir_id])
        res == v.result
    IN  /\ res.used = [i \in 1..Len(sp) |-> sp[i].span]
        /\ \A i \in 1..Len(sp) :
            LET at == VisitDiagsAt(v, sp[i].span)
            IN  IF ~IsWellFormed(sp[i])
                THEN \E j \in at : res.diags[j].note = <<>>
                ELSE LET k == KindOfName(sp[i].name)
                         same == OfKindIn(sp, k)
                     IN  IF v.target \notin LegalTargets(k)
                         THEN \E j \in at :
                                res.diags[j].msg = IllegalMsg(ExpectedClass(k), v.target)
                         ELSE /\ res.agg[SlotOf(k)] = SlotHolding(sp[FirstIn(same)])
                              /\ i # FirstIn(same) =>
                                    \E j \in at :
                                        res.diags[j].msg = ConflictMsg(CategoryOf(k), v.target)
                              /\ (v.target = "Param" /\ ~ParentOfCarriesEntry(v.hir_id)) =>
                                    \E j \in at : res.diags[j].msg = OrphanMsg

\* C8: errors are accumulated, never short-circuited. At every position every
\* annotation is marked used in source order and parsed, legality-checked
\* and aggregated whatever happened to the earlier ones, and every run of the
\* walker visits all the positions of its module, the exported macros and (for
\* the top-level module) the crate root, whatever was reported on the way.
C8_NoShortCircuit ==
    \A r \in SpirvRuns :
        LET did == session[r].did
            visits == VisitsOf(did)
        IN  /\ [i \in 1..Len(did.items) |-> did.items[i].hir_id] = hir.items[session[r].module]
            /\ [i \in 1..Len(did.macros) |-> did.macros[i].hir_id] = hir.exported_macros
            /\ [i \in 1..Len(did.root) |-> did.root[i].hir_id] =
                    IF is_top_level_module(session[r].module) THEN <<CRATE_HIR_ID>> ELSE <<>>
            /\ \A n \in 1..Len(visits) : EachAnnotationProcessed(visits[n])

\* A function whose first annotation is malformed and whose second is illegal
\* there: the third is aggregated, and so is the block of the struct visited
\* after the function and its parameter.
C8_Witness ==
    \E r \in SpirvRuns :
        LET did == session[r].did
        IN  /\ Len(hir.attrs[did.items[1].hir_id]) = 3
            /\ ~IsWellFormed(hir.attrs[did.items[1].hir_id][1])
            /\ did.items[1].target = "Fn"
            /\ Len(did.items[1].result.diags) = 2
            /\ Len(did.items[1].result.used) = 3
            /\ IsSome(did.items[1].result.agg["entry"])
            /\ did.items[3].target = "Struct"
            /\ IsSome(did.items[3].result.agg["block"])

\* The diagnostics of all runs at a span: those of the visits of exported
\* macro m, and those at the macro-level attributes.
MacroVisitDiags(m, span) ==
    UNION {{<<r, j>> : j \in VisitDiagsAt(session[r].did.macros[m], span)} : r \in SpirvRuns}

MacroLevelDiags(span) ==
    UNION {{<<r, j>> : j \in {n \in 1..Len(session[r].did.macro_level) :
                                session[r].did.macro_level[n].span = span}} :
           r \in SpirvRuns}

\* C10: a run checks the crate root iff its module is the top-level one, and
\* checks every exported macro and every macro-level annotation whatever its
\* module is. So once the query has run for each of the NumModules modules,
\* the crate root has been checked once and each #[spirv(..)] annotation of a
\* macro has NumModules diagnostics.
C10_RootOnceMacrosEveryRun ==
    /\ \A r \in SpirvRuns :
            /\ (session[r].did.root # <<>>) <=> (session[r].module = 1)
            /\ Len(session[r].did.root) <= 1
            /\ \A n \in 1..Len(session[r].did.root) :
                    /\ session[r].did.root[n].hir_id = CRATE_HIR_ID
                    /\ session[r].did.root[n].target = "Mod"
            /\ Len(session[r].did.macros) = Len(hir.exported_macros)
    /\ (pc = "idle" /\ pending = {}) =>
            /\ Cardinality(SpirvRuns) = NumModules
            /\ Cardinality({r \in SpirvRuns : session[r].did.root # <<>>}) = 1
            /\ \A m \in 1..Len(hir.exported_macros) :
                    LET sp == SpirvOf(hir.attrs[hir.exported_macros[m]])
                    IN  \A i \in 1..Len(sp) :
                            Cardinality(MacroVisitDiags(m, sp[i].span)) = NumModules
            /\ LET sp == SpirvOf(hir.non_exported_macro_attrs)
               IN  \A i \in 1..Len(sp) :
                        Cardinality(MacroLevelDiags(sp[i].span)) = NumModules

\* All modules done, with a decorated macro.
C10_Witness ==
    /\ pc = "idle"
    /\ pending = {}
    /\ Len(SpirvOf(hir.non_exported_macro_attrs)) >= 1
    /\ \E r \in SpirvRuns : session[r].module # 1 /\ session[r].did.macro_level # <<>>

====
